---- MODULE Spec2Model ----
(***************************************************************************)
(* The interaction orchestration layer of the Clarity+ kiosk front end:    *)
(* the application context (AppProvider), the recognition run of IdleView, *)
(* the enrollment wizard (EnrollmentView) and the analysis view            *)
(* (AnalysisView), as a state machine of React handlers and of the         *)
(* continuations of their awaits.                                          *)
(*                                                                         *)
(* Every await is a suspension point: the part of a handler between two    *)
(* awaits is one action.  A timer is a delay of any length.  A remote call *)
(* returns any of its possible answers at any later time, or never.        *)
(* State setters of a component that is no longer mounted do nothing; the  *)
(* setters of the context (setView, setCurrentUser, setScores,             *)
(* setWebcamFrame) always act, because AppProvider is never unmounted.     *)
(* Refs (streamRef) belong to one mounted instance of a view and stay      *)
(* reachable from the handlers that were started in that instance.         *)
(***************************************************************************)
EXTENDS Integers, Sequences, FiniteSets, TLC

\* ---------------------------------------------------------------- bounds
\* Recognition runs (calls of handleRecognize) that exist at the same time.
MaxRuns == 2
\* Continuations that go on in the background at the same time: runs that
\* were cancelled or whose IdleView is gone, wizards that were left while an
\* await of theirs was pending, analysis calls of an AnalysisView that is gone.
MaxBg == 1
\* getUserMedia calls of one wizard that are pending at the same time.
MaxPend == 1
\* Analysis calls in flight at the same time.
MaxCalls == 2

\* ------------------------------------------------------ program constants
\* for (let attempt = 0; attempt < 3; attempt++)
K == 3
\* CAPTURE_GUIDES.length
N == 3

\* null where the other values are strings.
Null == "null"
\* A value that may be null and is not a string: None, or Some(v).
None == <<>>
Some(v) == <<v>>
RunIds == 1..MaxRuns
InstIds == 0..MaxRuns
WizIds == 0..MaxBg

\* ------------------------------------------------------------------ state
VARIABLES
  \* AppProvider
  currentView, currentUser, scores, overallScore, capturedImage, error,
  webcamFrame,
  \* IdleView, the mounted instance
  isRecognizing, showCamera, recognizeStatus,
  videoSrc,      \* the stream that is srcObject of the rendered <video>, 0: none
  videoReady,    \* that <video> has a frame (videoWidth > 0)
  curInst,       \* identity of the mounted (or next) IdleView instance
  \* IdleView, handlers in progress and what they hold
  run,           \* run[r]: one call of handleRecognize
  stream,        \* stream[r]: the MediaStream run r got is live
  streamRef,     \* streamRef[i]: streamRef.current of IdleView instance i
  \* EnrollmentView, the mounted instance
  step, name, captureIndex, capturedImages, isCapturing, captureStatus,
  enrollError, qualityScore,
  \* EnrollmentView, handlers in progress and what they hold
  wiz,           \* wiz[0]: the mounted wizard; wiz[1..]: wizards left behind
  \* AnalysisView
  isLoading, analysisError,
  callsCur,      \* analysis calls in flight issued by the mounted AnalysisView
  autoTimer,     \* the 60 s timer of the auto-return effect: off, armed, fired
  callsOld,      \* analysis calls in flight issued by AnalysisViews now gone
  \* some live stream is held by no ref any more
  leaked

ctxVars == <<currentView, currentUser, scores, overallScore, capturedImage,
             error, webcamFrame>>
idleLocal == <<isRecognizing, showCamera, recognizeStatus, videoSrc,
               videoReady, curInst>>
idleProc == <<run, stream, streamRef>>
enrLocal == <<step, name, captureIndex, capturedImages, isCapturing,
              captureStatus, enrollError, qualityScore>>
anaLocal == <<isLoading, analysisError, callsCur, autoTimer>>
vars == <<ctxVars, idleLocal, idleProc, enrLocal, wiz, anaLocal, callsOld,
          leaked>>

\* ----------------------------------------------------------- remote values
\* FaceRecognizeResult, the fields handleRecognize reads.
RecognizeResults ==
  { [match |-> TRUE,  user_id |-> "7-ab", name |-> "Ann",
     match_type |-> "strong",  confidence |-> 1],
    [match |-> TRUE,  user_id |-> "7-ab", name |-> Null,
     match_type |-> "strong",  confidence |-> 1],
    [match |-> FALSE, user_id |-> Null,   name |-> Null,
     match_type |-> "no_face", confidence |-> 0] }

\* A detectFace call resolves with face_detected true or false, or rejects.
DetectAnswers == {"face", "noface", "error"}

\* DebugAnalysisResult, the fields performAnalysis reads; a score of null is
\* a disabled metric.  Scores are numbers with a fraction: they are given in
\* tenths (734 is 73.4).
AnalysisResults ==
  { [scores |-> [skin |-> Some(800), posture |-> Some(650), eyes |-> Some(580),
                 thermal |-> None],
     overall_score |-> 734, captured_image |-> "img"] }

\* The answers that differ in what the metric cards show: a score that is
\* null, 0, 0.4 or 80.
AnalysisResultsShown ==
  { [scores |-> [skin |-> s, posture |-> Some(650), eyes |-> Some(580),
                 thermal |-> t],
     overall_score |-> 734, captured_image |-> "img"] :
    s \in {None, Some(0), Some(4), Some(800)}, t \in {None, Some(0)} }

\* FaceEnrollResult, the fields processEnrollment reads.
EnrollResults ==
  { [user_id |-> "7-ab", name |-> "Ann", quality_score |-> 9],
    [user_id |-> "ab-7", name |-> "Ann", quality_score |-> 5] }

\* The exported calls of the API client.
ApiCalls ==
  {"checkHealth", "triggerAnalysis", "getUser", "createUser",
   "getAnalysisHistory", "triggerDebugAnalysis", "detectFace", "enrollFace",
   "recognizeFace"}

\* response.text() of an answer whose status is not ok.
ErrorBodies == {"422"}

\* The message of the Error a call throws on an answer that is not ok and
\* has the body b.
ThrownError(call, b) ==
  CASE call = "checkHealth" -> "Backend unavailable"
    [] call = "triggerAnalysis" -> "Analysis failed"
    [] call = "getUser" -> "User not found"
    [] call = "createUser" -> "Failed to create user"
    [] call = "getAnalysisHistory" -> "Failed to get history"
    [] call = "triggerDebugAnalysis" -> "Debug analysis failed: " \o b
    [] call = "detectFace" -> "Face detection failed"
    [] call = "enrollFace" -> "Enrollment failed: " \o b
    [] call = "recognizeFace" -> "Face recognition failed"

\* err.message of a rejected enrollFace call.
EnrollErrors == {ThrownError("enrollFace", b) : b \in ErrorBodies}

\* What the name input can hold.
Names == {"", " ", "Ann"}

\* String.prototype.trim on the values of Names.
\* A trim that removes nothing.
TrimNothing(s) == s

Trim(s) == IF s = " " THEN "" ELSE s

Status(m) == [msg |-> m, n |-> 0]
NoStatus == Status(Null)

\* ------------------------------------------------------ recognition runs
\* One call of handleRecognize: where it is suspended, its loop variable,
\* the IdleView instance it was started in; and, for the properties below,
\* the answer of detectFace in the current attempt and whether the user has
\* cancelled the run: "no", "backoff1" (cancelled in the backoff wait after
\* its first attempt) or "yes" (cancelled at any other point).  A call that
\* has returned, or that waits for an event that can no longer come, leaves
\* its slot as NoRun.
NoRun == [pc |-> "none", attempt |-> 0, inst |-> 0, lastDet |-> "none",
          cancelled |-> "no"]

\* A run whose continuation can still act.
Active(r) == run[r].pc # "none"

\* The user has pressed Cancel while run r was in progress.
Cancelled(r) == run[r].cancelled # "no"

\* Run r belongs to the IdleView instance that is on screen: its state
\* setters act and videoRef.current is the rendered <video>.
Mounted(r) == currentView = "idle" /\ run[r].inst = curInst

\* The IdleView instance identities the unfinished runs of rn belong to.
InstsInUse(rn) == {rn[r].inst : r \in {q \in RunIds : rn[q].pc # "none"}}

\* The identity of the next IdleView instance: the least one that no
\* unfinished run belongs to.
FreshInst(rn) ==
  CHOOSE i \in InstIds \ InstsInUse(rn) :
    \A j \in InstIds \ InstsInUse(rn) : i <= j

\* ------------------------------------------------- enrollment wizards
\* A handleCapture / processEnrollment call in progress, with the values
\* its closure holds.
EmptyOp == [pc |-> "none", idx |-> 0, imgs |-> <<>>, name |-> ""]

\* EnrollmentView.stopCamera on the flag "streamRef.current is set".
EnrollStopCamera(h) == IF h THEN FALSE ELSE h

\* One EnrollmentView instance: pending getUserMedia calls, whether
\* streamRef.current holds a live stream, and its call in progress.
EmptyWiz == [pend |-> 0, held |-> FALSE, op |-> EmptyOp]

\* Nothing of wizard w can act any more.
WizDead(w) == w.pend = 0 /\ w.op.pc = "none"

\* What goes on in the background, counted for the bound MaxBg.
Bg ==
  Cardinality({r \in RunIds : Active(r) /\ (Cancelled(r) \/ ~Mounted(r))})
  + Cardinality({w \in WizIds \ {0} : ~WizDead(wiz[w])})
  + callsOld

BgOk == Bg <= MaxBg

\* ---------------------------------------------------------- AppProvider
\* Unmounting the wizard: handleCancel calls stopCamera itself (stopFirst),
\* the capture effect's cleanup calls it when step is 'capture'.  What is
\* still pending of the wizard goes on without it.
EnrUnmount(stopFirst) ==
  LET w0 == [wiz[0] EXCEPT !.held = IF stopFirst \/ step = "capture"
                                    THEN EnrollStopCamera(@) ELSE @]
  IN IF WizDead(w0)
     THEN /\ wiz' = [wiz EXCEPT ![0] = EmptyWiz]
          /\ leaked' = (leaked \/ w0.held)
     ELSE /\ \E z \in WizIds \ {0} :
               /\ WizDead(wiz[z])
               /\ \A y \in WizIds \ {0} : WizDead(wiz[y]) => z <= y
               /\ wiz' = [wiz EXCEPT ![0] = EmptyWiz, ![z] = w0]
          /\ UNCHANGED leaked

\* setView: setCurrentView(view); setError(null).  AppContent then renders
\* the view: the view on screen is unmounted (its state is dropped) and the
\* new one is mounted with its initial state; AnalysisView's mount effect
\* issues the analysis call.  rn is the value of run after the caller's step.
\* type ViewType
ViewType == {"idle", "analysis", "enrollment"}

\* The values of the context's error state.
ContextErrors == {Null, "Unknown error"}

\* The state of AppProvider.
Context ==
  [currentView |-> currentView, currentUser |-> currentUser,
   scores |-> scores, overallScore |-> overallScore,
   capturedImage |-> capturedImage, error |-> error,
   webcamFrame |-> webcamFrame]

\* A setView that logs the user out as well.
setViewClearingUser(c, v) ==
  [c EXCEPT !.currentView = v, !.error = Null, !.currentUser = None]

\* setView: setCurrentView(view); setError(null).
setView(c, v) == [c EXCEPT !.currentView = v, !.error = Null]

SwitchView(v, stopFirst, rn) ==
  /\ currentView' = setView(Context, v).currentView
  /\ error' = setView(Context, v).error
  /\ IF v = currentView
     THEN UNCHANGED <<idleLocal, enrLocal, wiz, leaked, anaLocal, callsOld>>
     ELSE /\ isRecognizing' = FALSE
          /\ showCamera' = FALSE
          /\ recognizeStatus' = NoStatus
          /\ videoSrc' = 0
          /\ videoReady' = FALSE
          /\ curInst' = IF currentView = "idle" THEN FreshInst(rn) ELSE curInst
          /\ step' = "welcome"
          /\ name' = ""
          /\ captureIndex' = 0
          /\ capturedImages' = <<>>
          /\ isCapturing' = FALSE
          /\ captureStatus' = "idle"
          /\ enrollError' = Null
          /\ qualityScore' = None
          /\ IF currentView = "enrollment"
             THEN EnrUnmount(stopFirst)
             ELSE UNCHANGED <<wiz, leaked>>
          /\ isLoading' = TRUE
          /\ analysisError' = Null
          /\ autoTimer' = "off"
          /\ IF currentView = "analysis"
             THEN /\ callsOld' = callsOld + callsCur
                  /\ callsCur' = 0
             ELSE IF v = "analysis"
                  THEN /\ callsCur' = 1
                       /\ UNCHANGED callsOld
                  ELSE UNCHANGED <<callsCur, callsOld>>

\* setCurrentUser(u) as AnalysisView sees it: currentUser is a dependency of
\* its analysis effect, so a new user object while it is mounted runs
\* performAnalysis again.
UserEffect ==
  IF currentView = "analysis"
  THEN /\ callsCur + callsOld < MaxCalls
       /\ callsCur' = callsCur + 1
  ELSE UNCHANGED callsCur

\* --------------------------------------------------------------- IdleView
\* stopCamera of IdleView instance i: the tracks of streamRef.current stop.
\* What IdleView.stopCamera reads and writes.
CameraState ==
  [stream |-> stream, streamRef |-> streamRef, showCamera |-> showCamera]

IdleStopCameraKeepingRef(c, i) ==
  [c EXCEPT !.stream = IF c.streamRef[i] = 0 THEN @
                       ELSE [@ EXCEPT ![c.streamRef[i]] = FALSE],
            !.showCamera = FALSE]

\* IdleView.stopCamera of instance i: if streamRef.current is set, stop its
\* tracks and set it to null; setShowCamera(false).
IdleStopCamera(c, i) ==
  [c EXCEPT !.stream = IF c.streamRef[i] = 0 THEN @
                       ELSE [@ EXCEPT ![c.streamRef[i]] = FALSE],
            !.streamRef = [@ EXCEPT ![i] = 0],
            !.showCamera = FALSE]

StopStream(i) == IdleStopCamera(CameraState, i).stream

StopRef(i) == IdleStopCamera(CameraState, i).streamRef

\* A run that waits for loadeddata of the stream that stopCamera of
\* instance i stops will wait for ever.
HangStopped(rn, i) ==
  [q \in RunIds |->
     IF rn[q].pc = "load" /\ streamRef[i] = q THEN NoRun ELSE rn[q]]

\* stopCamera as the mounted instance sees it: setShowCamera(false) swaps
\* the overlay <video> for the off-screen one, a new element without source.
HideCamera(r) ==
  IF Mounted(r)
  THEN /\ showCamera' = IdleStopCamera(CameraState, curInst).showCamera
       /\ videoSrc' = IF showCamera THEN 0 ELSE videoSrc
       /\ videoReady' = IF showCamera THEN FALSE ELSE videoReady
  ELSE UNCHANGED <<showCamera, videoSrc, videoReady>>

\* captureFrame of IdleView: null without a rendered <video> or when that
\* video has no frame yet.
HasFrame(r) == Mounted(r) /\ videoReady

\* The loop condition off by one: a fourth pass.
LoopContinuesOnceMore(a) == a < K + 1

\* for (...; attempt < 3; ...)
LoopContinues(a) == a < K

\* detectFace's answer taken for granted: a frame without a face is sent on.
AfterDetectTrusting(ans) ==
  CASE ans = "face" -> "recognize"
    [] ans = "error" -> "recognize"
    [] ans = "noface" -> "recognize"

\* A rejected detectFace call left to the outer catch block.
AfterDetectAborting(ans) ==
  CASE ans = "face" -> "recognize"
    [] ans = "error" -> "abort"
    [] ans = "noface" -> "retry"

\* What one detectFace answer makes of the attempt: a face or a rejected
\* call break out of the loop with the frame, no face goes on to the backoff.
AfterDetect(ans) ==
  CASE ans = "face" -> "recognize"
    [] ans = "error" -> "recognize"
    [] ans = "noface" -> "retry"

\* if (result.match && result.name)
\* A test that takes every answer for a match.
IsMatchAlways(res) == TRUE

\* A test that trusts the match flag alone.
IsMatchByFlag(res) == res.match

IsMatch(res) == res.match /\ res.name # Null

\* The status line of a recognize answer that is no match.
NoMatchStatus(res) ==
  IF res.match_type = "no_users" THEN Status("noUsers")
  ELSE IF res.match_type = "no_face" THEN Status("noFaceRetry")
  ELSE IF res.confidence > 0 THEN Status("notRecognizedPct")
  ELSE Status("notRecognized")

\* After its stopCamera a run has no stream: the one it got is stopped, or
\* it is live and nothing refers to it, because streamRef.current had
\* changed.
EndRun(r, lv) ==
  /\ stream' = [lv EXCEPT ![r] = FALSE]
  /\ leaked' = (leaked \/ lv[r])

\* The ways handleRecognize returns after stopCamera, setRecognizeStatus and
\* setIsRecognizing(false).
Finish(r, st) ==
  LET i == run[r].inst IN
  /\ run' = [HangStopped(run, i) EXCEPT ![r] = NoRun]
  /\ EndRun(r, StopStream(i))
  /\ streamRef' = StopRef(i)
  /\ HideCamera(r)
  /\ recognizeStatus' = IF Mounted(r) THEN st ELSE recognizeStatus
  /\ isRecognizing' = IF Mounted(r) THEN FALSE ELSE isRecognizing

\* One pass of the head of the attempt loop, attempt = a: leave the loop
\* without a frame for recognition, or take a frame and call detectFace, or
\* find no frame and wait 500 ms.  st is the status line at that moment.
Attempt(r, a, st) ==
  IF LoopContinues(a)
  THEN /\ run' = [run EXCEPT ![r] =
                    [@ EXCEPT !.pc = IF HasFrame(r) THEN "det" ELSE "nofr",
                              !.attempt = a, !.lastDet = "none"]]
       /\ recognizeStatus' = IF Mounted(r) THEN st ELSE recognizeStatus
       /\ UNCHANGED <<stream, streamRef, isRecognizing, showCamera, videoSrc,
                      videoReady, leaked>>
  ELSE Finish(r, Status("noFace"))

\* The Recognize Me button (disabled while isRecognizing): handleRecognize
\* up to the getUserMedia call.
HandleRecognize(r) ==
  /\ currentView = "idle"
  /\ ~isRecognizing
  /\ ~Active(r)
  /\ \A q \in RunIds : ~Active(q) => r <= q
  /\ isRecognizing' = TRUE
  /\ showCamera' = TRUE
  /\ videoSrc' = IF showCamera THEN videoSrc ELSE 0
  /\ videoReady' = IF showCamera THEN videoReady ELSE FALSE
  /\ recognizeStatus' = Status("starting")
  /\ run' = [run EXCEPT ![r] = [NoRun EXCEPT !.pc = "acq", !.inst = curInst]]
  /\ UNCHANGED <<ctxVars, curInst, stream, streamRef, enrLocal, wiz, anaLocal,
                 callsOld, leaked>>

\* getUserMedia resolves: streamRef.current = stream, the rendered <video>
\* gets it as srcObject and its onloadeddata handler is set, which replaces
\* the handler of a run that waits on the same element; without a rendered
\* <video> there is nothing to wait for.
GetUserMediaResolves(r) ==
  LET waiting == {q \in RunIds : Mounted(r) /\ run[q].pc = "load" /\ videoSrc = q} IN
  /\ run[r].pc = "acq"
  /\ stream' = [q \in RunIds |-> IF q = r THEN TRUE
                                 ELSE IF q \in waiting THEN FALSE ELSE stream[q]]
  /\ leaked' = (leaked \/ \E q \in waiting : stream[q])
  /\ streamRef' = [streamRef EXCEPT ![run[r].inst] = r]
  /\ run' = [q \in RunIds |->
               IF q = r THEN [run[r] EXCEPT !.pc = IF Mounted(r) THEN "load" ELSE "settle"]
               ELSE IF q \in waiting THEN NoRun ELSE run[q]]
  /\ videoSrc' = IF Mounted(r) THEN r ELSE videoSrc
  /\ videoReady' = IF Mounted(r) THEN FALSE ELSE videoReady
  /\ UNCHANGED <<ctxVars, isRecognizing, showCamera, recognizeStatus, curInst,
                 enrLocal, wiz, anaLocal, callsOld>>

\* getUserMedia rejects: the catch block.
GetUserMediaRejects(r) ==
  /\ run[r].pc = "acq"
  /\ Finish(r, Status("failed"))
  /\ UNCHANGED <<ctxVars, curInst, enrLocal, wiz, anaLocal, callsOld>>

\* loadeddata of the <video> the run gave its stream to.
LoadedData(r) ==
  /\ run[r].pc = "load"
  /\ stream[r]
  /\ run' = [run EXCEPT ![r] = [@ EXCEPT !.pc = "settle"]]
  /\ videoReady' = IF Mounted(r) /\ videoSrc = r THEN TRUE ELSE videoReady
  /\ UNCHANGED <<ctxVars, isRecognizing, showCamera, recognizeStatus, videoSrc,
                 curInst, stream, streamRef, enrLocal, wiz, anaLocal, callsOld,
                 leaked>>

\* The 800 ms after loadeddata are over: 'Looking for your face', attempt 0.
SettleTimer(r) ==
  /\ run[r].pc = "settle"
  /\ Attempt(r, 0, Status("looking"))
  /\ UNCHANGED <<ctxVars, curInst, enrLocal, wiz, anaLocal, callsOld>>

\* The 500 ms after an attempt without a frame are over: continue.
NoFrameTimer(r) ==
  /\ run[r].pc = "nofr"
  /\ Attempt(r, run[r].attempt + 1, recognizeStatus)
  /\ UNCHANGED <<ctxVars, curInst, enrLocal, wiz, anaLocal, callsOld>>

\* detectFace answers.
DetectReturns(r, ans) ==
  /\ run[r].pc = "det"
  /\ CASE AfterDetect(ans) = "recognize" ->
            /\ run' = [run EXCEPT ![r] = [@ EXCEPT !.pc = "rec", !.lastDet = ans]]
            /\ recognizeStatus' =
                 IF Mounted(r) THEN Status("identifying") ELSE recognizeStatus
            /\ UNCHANGED <<stream, streamRef, isRecognizing, showCamera,
                           videoSrc, videoReady, leaked>>
       [] AfterDetect(ans) = "retry" ->
            /\ run' = [run EXCEPT ![r] = [@ EXCEPT !.pc = "back", !.lastDet = ans]]
            /\ recognizeStatus' =
                 IF Mounted(r)
                 THEN [msg |-> "adjusting", n |-> run[r].attempt + 2]
                 ELSE recognizeStatus
            /\ UNCHANGED <<stream, streamRef, isRecognizing, showCamera,
                           videoSrc, videoReady, leaked>>
       [] OTHER ->
            /\ Finish(r, Status("failed"))
  /\ UNCHANGED <<ctxVars, curInst, enrLocal, wiz, anaLocal, callsOld>>

\* The 700 ms backoff after an attempt without a face is over: attempt++.
BackoffTimer(r) ==
  /\ run[r].pc = "back"
  /\ Attempt(r, run[r].attempt + 1, recognizeStatus)
  /\ UNCHANGED <<ctxVars, curInst, enrLocal, wiz, anaLocal, callsOld>>

\* recognizeFace answers: stopCamera, then the outcome branches.
RecognizeReturns(r, res) ==
  /\ run[r].pc = "rec"
  /\ IF IsMatch(res)
     THEN /\ run' = [HangStopped(run, run[r].inst) EXCEPT
                       ![r] = [run[r] EXCEPT !.pc = "greet"]]
          /\ EndRun(r, StopStream(run[r].inst))
          /\ streamRef' = StopRef(run[r].inst)
          /\ HideCamera(r)
          /\ recognizeStatus' =
               IF Mounted(r) THEN Status("welcome") ELSE recognizeStatus
          /\ webcamFrame' = "frame"
          /\ currentUser' = Some([id |-> "now", name |-> res.name])
          /\ UserEffect
          /\ UNCHANGED isRecognizing
     ELSE /\ Finish(r, NoMatchStatus(res))
          /\ UNCHANGED <<webcamFrame, currentUser, callsCur>>
  /\ UNCHANGED <<currentView, scores, overallScore, capturedImage, error,
                 curInst, enrLocal, wiz, isLoading, analysisError, autoTimer,
                 callsOld>>

\* recognizeFace rejects: the catch block.
RecognizeThrows(r) ==
  /\ run[r].pc = "rec"
  /\ Finish(r, Status("failed"))
  /\ UNCHANGED <<ctxVars, curInst, enrLocal, wiz, anaLocal, callsOld>>

\* The 1200 ms of the welcome line are over: setView('analysis');
\* setIsRecognizing(false).
GreetTimer(r) ==
  LET rn == [run EXCEPT ![r] = NoRun] IN
  /\ run[r].pc = "greet"
  /\ run' = rn
  /\ SwitchView("analysis", FALSE, rn)
  /\ UNCHANGED <<currentUser, scores, overallScore, capturedImage, webcamFrame,
                 stream, streamRef>>
  /\ BgOk'

\* The Cancel button of the camera overlay: stopCamera();
\* setIsRecognizing(false); setRecognizeStatus(null).  The runs in progress
\* are not told; their cancelled field records it.
HandleCancel ==
  /\ currentView = "idle"
  /\ showCamera
  /\ run' = [q \in RunIds |->
               IF run[q].pc = "load" /\ streamRef[curInst] = q
               THEN NoRun
               ELSE IF Active(q) /\ run[q].inst = curInst /\ ~Cancelled(q)
                    THEN [run[q] EXCEPT !.cancelled =
                            IF run[q].pc = "back" /\ run[q].attempt = 0
                            THEN "backoff1" ELSE "yes"]
                    ELSE run[q]]
  /\ stream' = StopStream(curInst)
  /\ streamRef' = StopRef(curInst)
  /\ showCamera' = FALSE
  /\ videoSrc' = 0
  /\ videoReady' = FALSE
  /\ isRecognizing' = FALSE
  /\ recognizeStatus' = NoStatus
  /\ UNCHANGED <<ctxVars, curInst, enrLocal, wiz, anaLocal, callsOld, leaked>>
  /\ BgOk'

\* The status line under the button, shown when no run is in progress.
HandleDismissStatus ==
  /\ currentView = "idle"
  /\ ~isRecognizing
  /\ recognizeStatus # NoStatus
  /\ recognizeStatus' = NoStatus
  /\ UNCHANGED <<ctxVars, isRecognizing, showCamera, videoSrc, videoReady,
                 curInst, idleProc, enrLocal, wiz, anaLocal, callsOld, leaked>>

\* 'New user? Tap to enroll'.  The camera overlay (fixed inset-0 z-50)
\* covers the link while showCamera is true.
EnrollLink ==
  /\ currentView = "idle"
  /\ ~showCamera
  /\ SwitchView("enrollment", FALSE, run)
  /\ UNCHANGED <<currentUser, scores, overallScore, capturedImage, webcamFrame,
                 idleProc>>
  /\ BgOk'

\* --------------------------------------------------------- EnrollmentView
\* Wizard w is the one on screen.
OnScreen(w) == w = 0 /\ currentView = "enrollment"

\* A wizard left behind of which nothing can act any more is dropped; a
\* stream its ref still holds stays live for good.
Settle(wz, w) ==
  IF w # 0 /\ WizDead(wz[w]) THEN [wz EXCEPT ![w] = EmptyWiz] ELSE wz

LeakOf(wz, w) ==
  leaked \/ (w # 0 /\ WizDead(wz[w]) /\ wz[w].held)

\* The pose count off by one: the last pose is never asked for.
CaptureNextShort(idx) == idx < N - 2

\* if (captureIndex < CAPTURE_GUIDES.length - 1): more poses to capture.
CaptureNext(idx) == idx < N - 1

\* Number(result.user_id.split('-')[0]) || Date.now()
UserIdOf(uid) == IF uid = "7-ab" THEN "7" ELSE "now"

\* A catch block that forgets setCapturedImages([]).
EnrollCatchKeepingSamples(s, msg) ==
  [s EXCEPT !.enrollError = msg, !.captureIndex = 0, !.step = "capture"]

\* A catch block that forgets setCaptureIndex(0).
EnrollCatchKeepingIndex(s, msg) ==
  [s EXCEPT !.enrollError = msg, !.capturedImages = <<>>, !.step = "capture"]

\* The wizard's state as the catch block of processEnrollment leaves it.
EnrollCatch(s, msg) ==
  [s EXCEPT !.enrollError = msg, !.capturedImages = <<>>, !.captureIndex = 0,
            !.step = "capture"]

\* The capture step's part of the wizard's state.
CaptureState ==
  [captureIndex |-> captureIndex, capturedImages |-> capturedImages,
   captureStatus |-> captureStatus, isCapturing |-> isCapturing]

\* A try without a face that starts the pose sequence over.
CaptureRetryFromStart(s) ==
  [s EXCEPT !.captureStatus = "no_face", !.isCapturing = FALSE,
            !.captureIndex = 0, !.capturedImages = <<>>]

\* A try without a face that drops the samples but keeps the pose.
CaptureRetryDroppingSamples(s) ==
  [s EXCEPT !.captureStatus = "no_face", !.isCapturing = FALSE,
            !.capturedImages = <<>>]

\* handleCapture without a frame, without a face in it, or with a rejected
\* detectFace call: setCaptureStatus('no_face'); setIsCapturing(false).
CaptureRetry(s) ==
  [s EXCEPT !.captureStatus = "no_face", !.isCapturing = FALSE]

\* 'Get Started'
GetStarted ==
  /\ currentView = "enrollment"
  /\ step = "welcome"
  /\ step' = "name"
  /\ UNCHANGED <<ctxVars, idleLocal, idleProc, name, captureIndex,
                 capturedImages, isCapturing, captureStatus, enrollError,
                 qualityScore, wiz, anaLocal, callsOld, leaked>>

\* The name input.
SetName(n) ==
  /\ currentView = "enrollment"
  /\ step = "name"
  /\ n # name
  /\ name' = n
  /\ UNCHANGED <<ctxVars, idleLocal, idleProc, step, captureIndex,
                 capturedImages, isCapturing, captureStatus, enrollError,
                 qualityScore, wiz, anaLocal, callsOld, leaked>>

\* 'Next' (disabled while name.trim() is empty) or Enter in the input; the
\* capture effect calls startCamera.
NameNext ==
  /\ currentView = "enrollment"
  /\ step = "name"
  /\ Trim(name) # ""
  /\ wiz[0].pend < MaxPend
  /\ step' = "capture"
  /\ wiz' = [wiz EXCEPT ![0].pend = @ + 1]
  /\ UNCHANGED <<ctxVars, idleLocal, idleProc, name, captureIndex,
                 capturedImages, isCapturing, captureStatus, enrollError,
                 qualityScore, anaLocal, callsOld, leaked>>

\* 'Back' of the name step.
NameBack ==
  /\ currentView = "enrollment"
  /\ step = "name"
  /\ step' = "welcome"
  /\ UNCHANGED <<ctxVars, idleLocal, idleProc, name, captureIndex,
                 capturedImages, isCapturing, captureStatus, enrollError,
                 qualityScore, wiz, anaLocal, callsOld, leaked>>

\* handleCancel, the Cancel button of the welcome and the capture step:
\* stopCamera(); setView('idle').
EnrollCancel ==
  /\ currentView = "enrollment"
  /\ step \in {"welcome", "capture"}
  /\ SwitchView("idle", TRUE, run)
  /\ UNCHANGED <<currentUser, scores, overallScore, capturedImage, webcamFrame,
                 idleProc>>
  /\ BgOk'

\* getUserMedia of startCamera resolves: streamRef.current = stream.
StartCameraResolves(w) ==
  LET wz == [wiz EXCEPT ![w].pend = @ - 1, ![w].held = TRUE] IN
  /\ wiz[w].pend > 0
  /\ wiz' = Settle(wz, w)
  /\ leaked' = (wiz[w].held \/ LeakOf(wz, w))
  /\ UNCHANGED <<ctxVars, idleLocal, idleProc, enrLocal, anaLocal, callsOld>>

\* getUserMedia of startCamera rejects: setCaptureStatus('no_face').
StartCameraRejects(w) ==
  LET wz == [wiz EXCEPT ![w].pend = @ - 1] IN
  /\ wiz[w].pend > 0
  /\ wiz' = Settle(wz, w)
  /\ leaked' = LeakOf(wz, w)
  /\ captureStatus' = IF OnScreen(w) THEN "no_face" ELSE captureStatus
  /\ UNCHANGED <<ctxVars, idleLocal, idleProc, step, name, captureIndex,
                 capturedImages, isCapturing, enrollError, qualityScore,
                 anaLocal, callsOld>>

\* The Capture button (disabled while isCapturing): handleCapture up to the
\* detectFace call.  captureFrame of the wizard needs the <video>, the
\* <canvas> and its 2d context (gotFrame), not a frame of the camera.
HandleCapture(gotFrame) ==
  /\ currentView = "enrollment"
  /\ step = "capture"
  /\ ~isCapturing
  /\ IF gotFrame
     THEN /\ isCapturing' = TRUE
          /\ captureStatus' = "detecting"
          /\ wiz' = [wiz EXCEPT ![0].op =
                       [pc |-> "det", idx |-> captureIndex,
                        imgs |-> capturedImages, name |-> name]]
          /\ UNCHANGED <<captureIndex, capturedImages>>
     ELSE LET s == CaptureRetry(CaptureState) IN
          /\ captureStatus' = s.captureStatus
          /\ isCapturing' = s.isCapturing
          /\ captureIndex' = s.captureIndex
          /\ capturedImages' = s.capturedImages
          /\ UNCHANGED wiz
  /\ UNCHANGED <<ctxVars, idleLocal, idleProc, step, name, enrollError,
                 qualityScore, anaLocal, callsOld, leaked>>

\* detectFace of handleCapture answers.
CaptureDetectReturns(w, ans) ==
  /\ wiz[w].op.pc = "det"
  /\ IF ans = "face"
     THEN /\ wiz' = [wiz EXCEPT ![w].op.pc = "pause",
                                ![w].op.imgs = Append(@, wiz[w].op.idx)]
          /\ captureStatus' = IF OnScreen(w) THEN "ok" ELSE captureStatus
          /\ capturedImages' =
               IF OnScreen(w) THEN Append(wiz[w].op.imgs, wiz[w].op.idx)
               ELSE capturedImages
          /\ UNCHANGED <<isCapturing, captureIndex, leaked>>
     ELSE LET s == IF OnScreen(w) THEN CaptureRetry(CaptureState)
                   ELSE CaptureState
          IN
          /\ wiz' = Settle([wiz EXCEPT ![w].op = EmptyOp], w)
          /\ leaked' = LeakOf([wiz EXCEPT ![w].op = EmptyOp], w)
          /\ captureStatus' = s.captureStatus
          /\ isCapturing' = s.isCapturing
          /\ captureIndex' = s.captureIndex
          /\ capturedImages' = s.capturedImages
  /\ UNCHANGED <<ctxVars, idleLocal, idleProc, step, name, enrollError,
                 qualityScore, anaLocal, callsOld>>

\* The 800 ms of the green check are over: the next pose, or stopCamera,
\* setStep('processing') and processEnrollment up to the enrollFace call.
CapturePauseDone(w) ==
  /\ wiz[w].op.pc = "pause"
  /\ IF CaptureNext(wiz[w].op.idx)
     THEN /\ wiz' = Settle([wiz EXCEPT ![w].op = EmptyOp], w)
          /\ leaked' = LeakOf([wiz EXCEPT ![w].op = EmptyOp], w)
          /\ captureIndex' = IF OnScreen(w) THEN wiz[w].op.idx + 1 ELSE captureIndex
          /\ captureStatus' = IF OnScreen(w) THEN "idle" ELSE captureStatus
          /\ UNCHANGED <<step, enrollError>>
     ELSE /\ wiz' = [wiz EXCEPT ![w].held = EnrollStopCamera(@),
                                     ![w].op.pc = "enroll",
                                ![w].op.name = Trim(@)]
          /\ step' = IF OnScreen(w) THEN "processing" ELSE step
          /\ enrollError' = IF OnScreen(w) THEN Null ELSE enrollError
          /\ UNCHANGED <<captureIndex, captureStatus, leaked>>
  /\ isCapturing' = IF OnScreen(w) THEN FALSE ELSE isCapturing
  /\ UNCHANGED <<ctxVars, idleLocal, idleProc, name, capturedImages,
                 qualityScore, anaLocal, callsOld>>

\* enrollFace answers: setQualityScore, setCurrentUser, setStep('success').
EnrollReturns(w, res) ==
  /\ wiz[w].op.pc = "enroll"
  /\ wiz' = Settle([wiz EXCEPT ![w].op = EmptyOp], w)
  /\ leaked' = LeakOf([wiz EXCEPT ![w].op = EmptyOp], w)
  /\ currentUser' = Some([id |-> UserIdOf(res.user_id), name |-> res.name])
  /\ UserEffect
  /\ qualityScore' = IF OnScreen(w) THEN Some(res.quality_score) ELSE qualityScore
  /\ step' = IF OnScreen(w) THEN "success" ELSE step
  /\ UNCHANGED <<currentView, scores, overallScore, capturedImage, error,
                 webcamFrame, idleLocal, idleProc, name, captureIndex,
                 capturedImages, isCapturing, captureStatus, enrollError,
                 isLoading, analysisError, autoTimer, callsOld>>

\* enrollFace rejects: the catch block; back in the capture step the capture
\* effect calls startCamera again.
EnrollThrows(w, msg) ==
  LET s == EnrollCatch([step |-> step, name |-> name,
                        captureIndex |-> captureIndex,
                        capturedImages |-> capturedImages,
                        enrollError |-> enrollError], msg)
      wz == [wiz EXCEPT ![w].op = EmptyOp]
  IN
  /\ wiz[w].op.pc = "enroll"
  /\ IF OnScreen(w)
     THEN /\ step' = s.step
          /\ name' = s.name
          /\ captureIndex' = s.captureIndex
          /\ capturedImages' = s.capturedImages
          /\ enrollError' = s.enrollError
          /\ IF s.step = "capture"
             THEN /\ wiz[0].pend < MaxPend
                  /\ wiz' = [wz EXCEPT ![0].pend = @ + 1]
             ELSE wiz' = wz
          /\ UNCHANGED leaked
     ELSE /\ wiz' = Settle(wz, w)
          /\ leaked' = LeakOf(wz, w)
          /\ UNCHANGED <<step, name, captureIndex, capturedImages, enrollError>>
  /\ UNCHANGED <<ctxVars, idleLocal, idleProc, isCapturing, captureStatus,
                 qualityScore, anaLocal, callsOld>>

\* 'Start Analysis' of the success step.
SuccessStartAnalysis ==
  /\ currentView = "enrollment"
  /\ step = "success"
  /\ SwitchView("analysis", FALSE, run)
  /\ UNCHANGED <<currentUser, scores, overallScore, capturedImage, webcamFrame,
                 idleProc>>
  /\ BgOk'

\* 'Return to Mirror' of the success step.
SuccessReturn ==
  /\ currentView = "enrollment"
  /\ step = "success"
  /\ SwitchView("idle", FALSE, run)
  /\ UNCHANGED <<currentUser, scores, overallScore, capturedImage, webcamFrame,
                 idleProc>>
  /\ BgOk'

\* ----------------------------------------------------------- AnalysisView
\* Which analysis call answers: one of the mounted view or one of a view
\* that is gone.
CallInFlight(cur) == IF cur THEN callsCur > 0 ELSE callsOld > 0

\* The auto-return effect, dependencies [isLoading, error, setView,
\* setScores], after a render with the values ld and err: when one of them
\* has changed the timer of the last run is cleared, and a new one is set
\* if the view is not loading and shows no error.
AutoReturnEffect(ld, err) ==
  IF ld = isLoading /\ err = analysisError THEN autoTimer
  ELSE IF ~ld /\ err = Null THEN "armed" ELSE "off"

\* The 60 s of the auto-return timer are over: its callback has no
\* statement (setView('idle') and setScores(null, null, null) are commented
\* out).
AutoReturnTimer ==
  /\ currentView = "analysis"
  /\ autoTimer = "armed"
  /\ autoTimer' = "fired"
  /\ UNCHANGED <<ctxVars, idleLocal, idleProc, enrLocal, wiz, isLoading,
                 analysisError, callsCur, callsOld, leaked>>

\* triggerDebugAnalysis answers: setScores(scores, overall_score,
\* captured_image), then setIsLoading(false).
AnalysisReturns(cur, res) ==
  /\ CallInFlight(cur)
  /\ scores' = Some(res.scores)
  /\ overallScore' = Some(res.overall_score)
  /\ capturedImage' = res.captured_image
  /\ IF cur
     THEN /\ callsCur' = callsCur - 1
          /\ isLoading' = FALSE
          /\ autoTimer' = AutoReturnEffect(FALSE, analysisError)
          /\ UNCHANGED callsOld
     ELSE /\ callsOld' = callsOld - 1
          /\ UNCHANGED <<callsCur, isLoading, autoTimer>>
  /\ UNCHANGED <<currentView, currentUser, error, webcamFrame, idleLocal,
                 idleProc, enrLocal, wiz, analysisError, leaked>>

\* triggerDebugAnalysis rejects: setError(...), then setIsLoading(false).
AnalysisThrows(cur) ==
  /\ CallInFlight(cur)
  /\ IF cur
     THEN /\ callsCur' = callsCur - 1
          /\ isLoading' = FALSE
          /\ analysisError' = "Failed to analyze. Check connection."
          /\ autoTimer' = AutoReturnEffect(FALSE, analysisError')
          /\ UNCHANGED callsOld
     ELSE /\ callsOld' = callsOld - 1
          /\ UNCHANGED <<callsCur, isLoading, analysisError, autoTimer>>
  /\ UNCHANGED <<ctxVars, idleLocal, idleProc, enrLocal, wiz, leaked>>

\* handleClose, 'Return Home' / 'Return to Mirror' (not rendered while
\* isLoading): setView('idle'); setScores(null, null, null).
HandleClose ==
  /\ currentView = "analysis"
  /\ ~isLoading
  /\ SwitchView("idle", FALSE, run)
  /\ scores' = None
  /\ overallScore' = None
  /\ capturedImage' = Null
  /\ UNCHANGED <<currentUser, webcamFrame, idleProc>>
  /\ BgOk'

\* The results branch of the render: not loading and no error.
ResultsShown == currentView = "analysis" /\ ~isLoading /\ analysisError = Null

\* Math.round of a score that is not negative, given in tenths.
Round(t) == (t + 5) \div 10

Digit(d) ==
  CASE d = 0 -> "0" [] d = 1 -> "1" [] d = 2 -> "2" [] d = 3 -> "3"
    [] d = 4 -> "4" [] d = 5 -> "5" [] d = 6 -> "6" [] d = 7 -> "7"
    [] d = 8 -> "8" [] d = 9 -> "9"

\* A number as JSX renders it.
RECURSIVE NumberText(_)
NumberText(n) ==
  IF n < 10 THEN Digit(n) ELSE NumberText(n \div 10) \o Digit(n % 10)

\* MetricCard.getScoreColor
getScoreColor(score) ==
  IF score = None THEN "text-white/40"
  ELSE IF score[1] >= 800 THEN "text-green-400"
  ELSE IF score[1] >= 600 THEN "text-lime-400"
  ELSE IF score[1] >= 400 THEN "text-yellow-400"
  ELSE IF score[1] >= 200 THEN "text-orange-400"
  ELSE "text-red-400"

\* MetricCard.getScoreLabel
getScoreLabel(score) ==
  IF score = None THEN "N/A"
  ELSE IF score[1] >= 800 THEN "Excellent"
  ELSE IF score[1] >= 600 THEN "Good"
  ELSE IF score[1] >= 400 THEN "Fair"
  ELSE IF score[1] >= 200 THEN "Poor"
  ELSE "Needs Work"

\* A missing score shown the way the overall score is: score ?? 0.
ScoreTextZeroed(score) ==
  IF score # None THEN NumberText(Round(score[1])) ELSE NumberText(0)

\* {score !== null ? Math.round(score) : '—'}
ScoreText(score) ==
  IF score # None THEN NumberText(Round(score[1])) ELSE "-"

\* What one MetricCard shows.
MetricCard(score, disabled) ==
  [text |-> ScoreText(score), color |-> getScoreColor(score),
   label |-> getScoreLabel(score), greyedOut |-> disabled]

Metrics == {"skin", "posture", "eyes", "thermal"}

\* scores?.m ?? null
ScoreProp(sc, m) == IF sc = None THEN None ELSE sc[1][m]

\* The four cards of the results branch; only the thermal card has the
\* disabled prop: scores?.thermal === null.
MetricCards(sc) ==
  [m \in Metrics |->
     MetricCard(ScoreProp(sc, m),
                m = "thermal" /\ sc # None /\ sc[1].thermal = None)]

\* ------------------------------------------------------- the state machine
Init ==
  /\ currentView = "idle"
  /\ currentUser = None
  /\ scores = None
  /\ overallScore = None
  /\ capturedImage = Null
  /\ error = Null
  /\ webcamFrame = Null
  /\ isRecognizing = FALSE
  /\ showCamera = FALSE
  /\ recognizeStatus = NoStatus
  /\ videoSrc = 0
  /\ videoReady = FALSE
  /\ curInst = 0
  /\ run = [r \in RunIds |-> NoRun]
  /\ stream = [r \in RunIds |-> FALSE]
  /\ streamRef = [i \in InstIds |-> 0]
  /\ step = "welcome"
  /\ name = ""
  /\ captureIndex = 0
  /\ capturedImages = <<>>
  /\ isCapturing = FALSE
  /\ captureStatus = "idle"
  /\ enrollError = Null
  /\ qualityScore = None
  /\ wiz = [w \in WizIds |-> EmptyWiz]
  /\ isLoading = TRUE
  /\ analysisError = Null
  /\ callsCur = 0
  /\ autoTimer = "off"
  /\ callsOld = 0
  /\ leaked = FALSE

Next ==
  \/ \E r \in RunIds : HandleRecognize(r)
  \/ \E r \in RunIds : GetUserMediaResolves(r)
  \/ \E r \in RunIds : GetUserMediaRejects(r)
  \/ \E r \in RunIds : LoadedData(r)
  \/ \E r \in RunIds : SettleTimer(r)
  \/ \E r \in RunIds : NoFrameTimer(r)
  \/ \E r \in RunIds, ans \in DetectAnswers : DetectReturns(r, ans)
  \/ \E r \in RunIds : BackoffTimer(r)
  \/ \E r \in RunIds, res \in RecognizeResults : RecognizeReturns(r, res)
  \/ \E r \in RunIds : RecognizeThrows(r)
  \/ \E r \in RunIds : GreetTimer(r)
  \/ HandleCancel
  \/ HandleDismissStatus
  \/ EnrollLink
  \/ GetStarted
  \/ \E n \in Names : SetName(n)
  \/ NameNext
  \/ NameBack
  \/ EnrollCancel
  \/ \E w \in WizIds : StartCameraResolves(w)
  \/ \E w \in WizIds : StartCameraRejects(w)
  \/ \E b \in BOOLEAN : HandleCapture(b)
  \/ \E w \in WizIds, ans \in DetectAnswers : CaptureDetectReturns(w, ans)
  \/ \E w \in WizIds : CapturePauseDone(w)
  \/ \E w \in WizIds, res \in EnrollResults : EnrollReturns(w, res)
  \/ \E w \in WizIds, msg \in EnrollErrors : EnrollThrows(w, msg)
  \/ SuccessStartAnalysis
  \/ SuccessReturn
  \/ \E cur \in BOOLEAN, res \in AnalysisResults : AnalysisReturns(cur, res)
  \/ \E cur \in BOOLEAN : AnalysisThrows(cur)
  \/ AutoReturnTimer
  \/ HandleClose

Spec == Init /\ [][Next]_vars

\* The kiosk when nobody taps the enroll link: recognition and analysis.
NextRecog ==
  \/ \E r \in RunIds : HandleRecognize(r)
  \/ \E r \in RunIds : GetUserMediaResolves(r)
  \/ \E r \in RunIds : GetUserMediaRejects(r)
  \/ \E r \in RunIds : LoadedData(r)
  \/ \E r \in RunIds : SettleTimer(r)
  \/ \E r \in RunIds : NoFrameTimer(r)
  \/ \E r \in RunIds, ans \in DetectAnswers : DetectReturns(r, ans)
  \/ \E r \in RunIds : BackoffTimer(r)
  \/ \E r \in RunIds, res \in RecognizeResults : RecognizeReturns(r, res)
  \/ \E r \in RunIds : RecognizeThrows(r)
  \/ \E r \in RunIds : GreetTimer(r)
  \/ HandleCancel
  \/ HandleDismissStatus
  \/ \E cur \in BOOLEAN, res \in AnalysisResults : AnalysisReturns(cur, res)
  \/ \E cur \in BOOLEAN : AnalysisThrows(cur)
  \/ AutoReturnTimer
  \/ HandleClose

SpecRecog == Init /\ [][NextRecog]_vars

\* The kiosk when nobody taps Recognize Me: enrollment and analysis.
NextEnroll ==
  \/ EnrollLink
  \/ GetStarted
  \/ \E n \in Names : SetName(n)
  \/ NameNext
  \/ NameBack
  \/ EnrollCancel
  \/ \E w \in WizIds : StartCameraResolves(w)
  \/ \E w \in WizIds : StartCameraRejects(w)
  \/ \E b \in BOOLEAN : HandleCapture(b)
  \/ \E w \in WizIds, ans \in DetectAnswers : CaptureDetectReturns(w, ans)
  \/ \E w \in WizIds : CapturePauseDone(w)
  \/ \E w \in WizIds, res \in EnrollResults : EnrollReturns(w, res)
  \/ \E w \in WizIds, msg \in EnrollErrors : EnrollThrows(w, msg)
  \/ SuccessStartAnalysis
  \/ SuccessReturn
  \/ \E cur \in BOOLEAN, res \in AnalysisResults : AnalysisReturns(cur, res)
  \/ \E cur \in BOOLEAN : AnalysisThrows(cur)
  \/ AutoReturnTimer
  \/ HandleClose

SpecEnroll == Init /\ [][NextEnroll]_vars

\* The kiosk when nobody taps the enroll link, with every kind of analysis
\* answer.
NextShow ==
  \/ \E r \in RunIds : HandleRecognize(r)
  \/ \E r \in RunIds : GetUserMediaResolves(r)
  \/ \E r \in RunIds : GetUserMediaRejects(r)
  \/ \E r \in RunIds : LoadedData(r)
  \/ \E r \in RunIds : SettleTimer(r)
  \/ \E r \in RunIds : NoFrameTimer(r)
  \/ \E r \in RunIds, ans \in DetectAnswers : DetectReturns(r, ans)
  \/ \E r \in RunIds : BackoffTimer(r)
  \/ \E r \in RunIds, res \in RecognizeResults : RecognizeReturns(r, res)
  \/ \E r \in RunIds : RecognizeThrows(r)
  \/ \E r \in RunIds : GreetTimer(r)
  \/ HandleCancel
  \/ HandleDismissStatus
  \/ \E cur \in BOOLEAN, res \in AnalysisResultsShown : AnalysisReturns(cur, res)
  \/ \E cur \in BOOLEAN : AnalysisThrows(cur)
  \/ AutoReturnTimer
  \/ HandleClose

SpecShow == Init /\ [][NextShow]_vars

\* What the browser does sooner or later for a recognition run: getUserMedia
\* settles, a live stream given to a <video> loads, a timer fires.  A
\* detectFace, recognizeFace or analysis call need not get an answer, and
\* the user need not do anything.
FairRecog ==
  \A r \in RunIds :
    /\ WF_vars(GetUserMediaResolves(r) \/ GetUserMediaRejects(r))
    /\ WF_vars(LoadedData(r))
    /\ WF_vars(SettleTimer(r))
    /\ WF_vars(NoFrameTimer(r))
    /\ WF_vars(BackoffTimer(r))
    /\ WF_vars(GreetTimer(r))

SpecRecogLive == Init /\ [][NextRecog]_vars /\ FairRecog

\* The same for the wizard: getUserMedia settles, the pause after a
\* confirmed sample ends.  An enrollFace call need not get an answer.
FairEnroll ==
  \A w \in WizIds :
    /\ WF_vars(StartCameraResolves(w) \/ StartCameraRejects(w))
    /\ WF_vars(CapturePauseDone(w))

SpecEnrollLive == Init /\ [][NextEnroll]_vars /\ FairEnroll

\* The shape of the state.
TypeOK ==
  /\ currentView \in {"idle", "analysis", "enrollment"}
  /\ \A r \in RunIds :
       /\ run[r].pc \in {"none", "acq", "load", "settle", "nofr", "det", "back",
                          "rec", "greet"}
       /\ run[r].inst \in InstIds
       /\ run[r].attempt \in 0..K
       /\ run[r].cancelled \in {"no", "backoff1", "yes"}
       /\ stream[r] \in BOOLEAN
       /\ stream[r] => Active(r)
  /\ \A i \in InstIds :
       /\ streamRef[i] \in RunIds \cup {0}
       /\ streamRef[i] # 0 =>
            /\ stream[streamRef[i]]
            /\ run[streamRef[i]].inst = i
  /\ videoSrc \in RunIds \cup {0}
  /\ currentView # "idle" =>
       ~isRecognizing /\ ~showCamera /\ recognizeStatus = NoStatus /\ videoSrc = 0
  /\ curInst \in InstIds
  /\ currentView = "idle" => \A i \in InstIds \ InstsInUse(run) : streamRef[i] = 0
  /\ \A w \in WizIds : wiz[w].pend \in 0..MaxPend
  /\ currentView # "enrollment" => wiz[0] = EmptyWiz /\ step = "welcome"
  /\ \A w \in WizIds \ {0} : WizDead(wiz[w]) => wiz[w] = EmptyWiz
  /\ callsCur \in 0..MaxCalls /\ callsOld \in 0..MaxBg
  /\ currentView # "analysis" => callsCur = 0 /\ isLoading
  /\ autoTimer \in {"off", "armed", "fired"}
  /\ autoTimer # "off" => currentView = "analysis" /\ ~isLoading
  /\ autoTimer = "armed" => analysisError = Null
  /\ leaked \in BOOLEAN

\* ------------------------------------------------------------- properties
\* C1: every camera stream that a recognition run or the capture step of the
\* wizard acquired is released on every exit path (completion, no face,
\* remote error, cancel, also a cancel while getUserMedia is pending, and
\* leaving the view): a live stream belongs to a run in progress that was
\* not cancelled and whose IdleView is on screen, or to the wizard on
\* screen, and no live stream is left that nothing refers to.
C1_StreamsReleasedOnEveryExit ==
  /\ \A r \in RunIds : stream[r] => Active(r) /\ ~Cancelled(r) /\ Mounted(r)
  /\ \A w \in WizIds : wiz[w].held => OnScreen(w)
  /\ ~leaked

\* C2: once the user has cancelled a recognition run, no step of that run
\* sets the current user or changes the view mode, whatever a detectFace or
\* recognizeFace call that was in flight returns.  (A cancelled run that
\* waits for loadeddata takes no step of its own that matters here, and can
\* be ended by the stopCamera of another run.)
C2_CancelledRunHasNoEffect ==
  [][\A r \in RunIds :
       Cancelled(r) /\ run[r].pc # "load" /\ run'[r] # run[r]
         => currentUser' = currentUser /\ currentView' = currentView]_vars

\* C3: the wizard is in the processing step, and an enrollFace call is in
\* flight, only with exactly N confirmed samples; and the step after the
\* pause that follows a confirmed sample enters processing and calls
\* enrollFace if that sample was the N-th, and stays in the capture step
\* without a call if it was not.
C3_ProcessingIffAllSamples ==
  /\ [](/\ (currentView = "enrollment" /\ step = "processing")
             => Len(capturedImages) = N /\ wiz[0].op.pc = "enroll"
        /\ \A w \in WizIds : wiz[w].op.pc = "enroll" => Len(wiz[w].op.imgs) = N)
  /\ [][(/\ currentView = "enrollment" /\ currentView' = "enrollment"
         /\ wiz[0].op.pc = "pause" /\ wiz'[0].op.pc # "pause")
          => IF Len(wiz[0].op.imgs) = N
             THEN step' = "processing" /\ wiz'[0].op.pc = "enroll"
             ELSE step' = "capture" /\ wiz'[0].op.pc = "none"]_vars

\* A processing step reached with N samples and the enrollFace call in flight.
C3_Witness ==
  /\ currentView = "enrollment" /\ step = "processing"
  /\ wiz[0].op.pc = "enroll" /\ wiz[0].op.imgs = <<0, 1, 2>>
  /\ capturedImages = <<0, 1, 2>>

\* C4: a recognition run makes at most K attempts, an attempt without a
\* frame counting as one: the attempts of a run are numbered 0..K-1, a new
\* attempt is the first one or follows the previous one's wait with the next
\* number; and the run whose K-th attempt found no frame or no face ends at
\* its next step with the no-face status, the camera stopped and
\* isRecognizing cleared.
C4_AtMostKAttemptsThenNoFace ==
  /\ [](\A r \in RunIds :
          run[r].pc \in {"det", "nofr", "back"} => run[r].attempt \in 0..(K - 1))
  /\ [][\A r \in RunIds :
          /\ (/\ run'[r].pc \in {"det", "nofr"}
              /\ <<run'[r].pc, run'[r].attempt>> # <<run[r].pc, run[r].attempt>>)
               => \/ run[r].pc = "settle" /\ run'[r].attempt = 0
                  \/ /\ run[r].pc \in {"nofr", "back"}
                     /\ run'[r].attempt = run[r].attempt + 1
          /\ (/\ run[r].pc \in {"nofr", "back"} /\ run[r].attempt = K - 1
              /\ run'[r].pc # run[r].pc)
               => /\ run'[r] = NoRun
                  /\ ~stream'[r]
                  /\ Mounted(r) => /\ recognizeStatus' = Status("noFace")
                                   /\ ~isRecognizing']_vars

\* A run has ended with the no-face status.
C4_Witness ==
  /\ currentView = "idle"
  /\ recognizeStatus = Status("noFace")
  /\ ~isRecognizing
  /\ \A r \in RunIds : ~Active(r)

\* C5: whenever the view mode is idle no analysis result is stored, also
\* when an analysis response arrives after the view was left.
C5_IdleHoldsNoAnalysisResult ==
  currentView = "idle"
    => scores = None /\ overallScore = None /\ capturedImage = Null

\* C6: when the enrollFace call fails in the processing step, the wizard is
\* back in the capture step at pose 0 with no captured samples, the name as
\* it was, the error message set and no call in flight.
C6_EnrollFailureResetsCapture ==
  [][(/\ currentView = "enrollment" /\ step = "processing"
      /\ currentView' = "enrollment" /\ step' \notin {"processing", "success"})
       => /\ step' = "capture"
          /\ captureIndex' = 0
          /\ capturedImages' = <<>>
          /\ name' = name
          /\ enrollError' \in EnrollErrors
          /\ wiz'[0].op.pc = "none"]_vars

\* The capture step as a failed enrollFace call leaves it.
C6_Witness ==
  /\ currentView = "enrollment" /\ step = "capture"
  /\ enrollError \in EnrollErrors
  /\ captureIndex = 0 /\ capturedImages = <<>>
  /\ name = "Ann"

\* C7: a run calls recognizeFace only on the answer of a detectFace call, and
\* only if that answer was a face or the call was rejected; the run whose
\* K-th detectFace call answered no face ends at its next step with the
\* no-face status, without a recognizeFace call.
C7_RecognizeOnlyAfterFaceOrFailedDetect ==
  [][\A r \in RunIds :
       /\ (run'[r].pc = "rec" /\ run[r].pc # "rec")
            => run[r].pc = "det" /\ run'[r].lastDet \in {"face", "error"}
       /\ (/\ run[r].pc = "back" /\ run[r].attempt = K - 1
           /\ run'[r].pc # "back")
            => /\ run'[r].pc = "none"
               /\ Mounted(r) => recognizeStatus' = Status("noFace")]_vars

\* recognizeFace called with the frame of the last attempt, after the
\* earlier attempts found no face.
C7_Witness ==
  \E r \in RunIds :
    run[r].pc = "rec" /\ run[r].lastDet = "face" /\ run[r].attempt = K - 1

\* C8: a detectFace answer never ends the run, and a rejected detectFace
\* call passes the frame on to recognizeFace; the run then ends as
\* recognizeFace answers: on a match the current user is set and the run's
\* last step sets the view mode to analysis, otherwise the user is left as
\* it was.
C8_DetectFailureFallsBackToRecognition ==
  [][\A r \in RunIds :
       /\ (run[r].pc = "det" /\ run'[r].pc # "det")
            => /\ run'[r].pc \in {"rec", "back"}
               /\ run'[r].lastDet = "error" => run'[r].pc = "rec"
       /\ (run[r].pc = "rec" /\ run[r].lastDet = "error" /\ run'[r].pc # "rec")
            => \/ run'[r].pc = "greet" /\ currentUser' # None
               \/ run'[r] = NoRun /\ currentUser' = currentUser
       /\ (run[r].pc = "greet" /\ run'[r].pc # "greet")
            => currentView' = "analysis"]_vars

\* A match after a rejected detectFace call: the user is set and the run
\* waits to switch to analysis.
C8_Witness ==
  \E r \in RunIds :
    /\ run[r].pc = "greet" /\ run[r].lastDet = "error"
    /\ currentUser # None /\ webcamFrame # Null

\* C9: a run that the user cancelled in the backoff wait after its first
\* attempt holds no live stream from then on, and no step of it sets the
\* current user or changes the view mode.
C9_CancelInFirstBackoffIsFinal ==
  [][\A r \in RunIds :
       /\ run'[r].cancelled = "backoff1" => ~stream'[r]
       /\ (run[r].cancelled = "backoff1" /\ run'[r] # run[r])
            => currentUser' = currentUser /\ currentView' = currentView]_vars

\* C10: at most one camera stream is live at any time.
C10_AtMostOneLiveStream ==
  Cardinality({r \in RunIds : stream[r]})
    + Cardinality({w \in WizIds : wiz[w].held})
    + (IF leaked THEN 1 ELSE 0) <= 1

\* C11: after handleCancel of the wizard the camera is released, the view
\* mode is idle, and the wizard that was left starts no enrollFace call and
\* sets no current user, whatever its detectFace call or its pause was doing
\* when the user cancelled.  (The wizards 1.. are the ones that were left.)
C11_CancelledWizardIsDiscarded ==
  [][/\ (currentView = "enrollment" /\ step \in {"welcome", "capture"}
         /\ currentView' # "enrollment")
          => currentView' = "idle"
     /\ \A w \in WizIds \ {0} :
          /\ ~wiz'[w].held
          /\ wiz'[w].op.pc = "enroll" => wiz[w].op.pc = "enroll"
          /\ (wiz[w] # EmptyWiz /\ wiz'[w] # wiz[w])
               => currentUser' = currentUser]_vars

\* C12: every step that takes the view mode to idle (handleClose of the
\* analysis view, handleCancel or 'Return to Mirror' of the wizard) leaves
\* the current user unset and no analysis result stored.
C12_EnteringIdleClearsUserAndResult ==
  [][(currentView # "idle" /\ currentView' = "idle")
       => /\ currentUser' = None
          /\ scores' = None /\ overallScore' = None
          /\ capturedImage' = Null]_vars

\* C13: the view mode starts at idle and changes only idle -> analysis at the
\* end of a run that got a match, idle -> enrollment, enrollment -> analysis
\* from the success step of the wizard, enrollment -> idle, and
\* analysis -> idle.
C13_OnlyListedModeTransitions ==
  /\ currentView = "idle"
  /\ [][currentView' # currentView =>
          \/ /\ currentView = "idle" /\ currentView' = "analysis"
             /\ \E r \in RunIds : run[r].pc = "greet" /\ run'[r].pc = "none"
          \/ currentView = "idle" /\ currentView' = "enrollment"
          \/ /\ currentView = "enrollment" /\ currentView' = "analysis"
             /\ step = "success"
          \/ currentView = "enrollment" /\ currentView' = "idle"
          \/ currentView = "analysis" /\ currentView' = "idle"]_vars

\* C14: an analysis call is issued only by the step that enters the analysis
\* mode, and that step issues exactly one; while the mode stays analysis no
\* further call is issued, whatever changes meanwhile.
C14_OneAnalysisCallPerEntry ==
  [][/\ (currentView # "analysis" /\ currentView' = "analysis")
          => callsCur' = 1
     /\ callsCur' > callsCur
          => currentView # "analysis" /\ currentView' = "analysis"]_vars

\* C15: in the results branch a metric whose score is null is shown without
\* a number, with the label N/A, and the thermal card greyed out; a metric
\* whose score is 0 is shown as the number 0; and what a card shows for a
\* null score differs from what it shows for any number.
C15_NullScoreShownUnavailable ==
  ResultsShown =>
    \A m \in Metrics :
      LET score == ScoreProp(scores, m)
          card == MetricCards(scores)[m]
      IN /\ score = None
              => /\ card.text = "-" /\ card.label = "N/A"
                 /\ m = "thermal" => card.greyedOut
         /\ score = Some(0) => card.text = "0" /\ card.label # "N/A"
         /\ score # None
              => /\ card.text # MetricCard(None, card.greyedOut).text
                 /\ card # MetricCard(None, card.greyedOut)

\* Results on screen with a thermal score of null next to a skin score of 0.
C15_Witness ==
  /\ ResultsShown
  /\ scores # None
  /\ scores[1].thermal = None /\ scores[1].skin = Some(0)
  /\ MetricCards(scores)["thermal"].greyedOut
  /\ MetricCards(scores)["skin"].text = "0"

\* C16: a run that the user has cancelled starts no detectFace and no
\* recognizeFace call; a call of it that was in flight may answer, and the
\* answer changes neither the current user nor the frame kept for the
\* analysis.
C16_CancelledRunIssuesNoCall ==
  [][\A r \in RunIds :
       Cancelled(r) =>
         /\ run'[r].pc = "det" => run[r].pc = "det"
         /\ run'[r].pc = "rec" => run[r].pc = "rec"
         /\ (run[r].pc \in {"det", "rec"} /\ run'[r].pc # run[r].pc)
              => currentUser' = currentUser /\ webcamFrame' = webcamFrame]_vars

\* C17: at most one recognition run is in progress, and at most one
\* detectFace, recognizeFace or enrollFace call of the runs and of the
\* wizards is in flight.
C17_OneRunOneCallInFlight ==
  /\ Cardinality({r \in RunIds : Active(r)}) <= 1
  /\ Cardinality({r \in RunIds : run[r].pc \in {"det", "rec"}})
       + Cardinality({w \in WizIds : wiz[w].op.pc \in {"det", "enroll"}}) <= 1

\* C18: every recognition run ends: a run in progress is sooner or later
\* over with its stream stopped, also when a detectFace or recognizeFace
\* call of it never gets an answer.
C18_RunTerminates ==
  \A r \in RunIds : Active(r) ~> (~Active(r) /\ ~stream[r])

\* C19: an analysis view that is loading sooner or later shows the results
\* or the error, also when the analysis call never gets an answer.
C19_AnalysisLeavesPending ==
  (currentView = "analysis" /\ isLoading)
    ~> ~(currentView = "analysis" /\ isLoading)

\* C20: a wizard in the processing step sooner or later leaves it, to the
\* success step or back to the capture step at pose 0, also when the
\* enrollFace call never gets an answer.
C20_ProcessingEnds ==
  (currentView = "enrollment" /\ step = "processing")
    ~> (/\ currentView = "enrollment"
        /\ \/ step = "success"
           \/ step = "capture" /\ captureIndex = 0)

\* The place of a wizard stage in welcome, name, capture, processing,
\* success, and the place with the pose of the capture step counted in.
StageNo(st) ==
  CASE st = "welcome" -> 0 [] st = "name" -> 1 [] st = "capture" -> 2
    [] st = "processing" -> 3 [] st = "success" -> 4

StagePos(st, idx) ==
  CASE st = "welcome" -> 0 [] st = "name" -> 1 [] st = "capture" -> 2 + idx
    [] st = "processing" -> 2 + N [] st = "success" -> 3 + N

\* C21: while the wizard is on screen its stage moves forward one stage or
\* one pose at a time along welcome, name, capture 0..N-1, processing,
\* success; and in every stage that has a previous one, except processing,
\* the user can go back to the previous stage.
C21_ForwardByOneBackExceptProcessing ==
  /\ [][(/\ currentView = "enrollment" /\ currentView' = "enrollment"
         /\ StagePos(step', captureIndex') > StagePos(step, captureIndex))
          => StagePos(step', captureIndex') = StagePos(step, captureIndex) + 1]_vars
  /\ [](currentView = "enrollment" /\ step \in {"name", "capture", "success"}
          => ENABLED (/\ NextEnroll
                      /\ currentView' = "enrollment"
                      /\ StageNo(step') = StageNo(step) - 1))

\* C22: in every stage of the wizard some action of the user leads to the
\* idle mode, and the step that takes the wizard to idle leaves no stream
\* of it live.
C22_CancelAvailableInEveryStage ==
  /\ [](currentView = "enrollment"
          => ENABLED (NextEnroll /\ currentView' = "idle"))
  /\ [][(currentView = "enrollment" /\ currentView' = "idle")
          => /\ \A w \in WizIds : ~wiz'[w].held
             /\ leaked' = leaked]_vars

\* C23: a try of the capture step that found no frame, or no face, or whose
\* detectFace call was rejected, leaves the pose, the confirmed samples, the
\* stage and the name as they were and shows the retry prompt; and the
\* Capture button works again whenever no try is in progress, however many
\* tries there were.
C23_FailedCaptureKeepsStep ==
  /\ [][(/\ currentView = "enrollment" /\ currentView' = "enrollment"
         /\ step = "capture"
         /\ \/ wiz[0].op.pc = "det" /\ wiz'[0].op.pc = "none"
            \/ /\ ~isCapturing /\ wiz'[0].op = wiz[0].op
               /\ captureStatus' = "no_face" /\ captureStatus # "no_face")
          => /\ captureIndex' = captureIndex
             /\ capturedImages' = capturedImages
             /\ step' = step /\ name' = name
             /\ captureStatus' = "no_face"
             /\ ~isCapturing']_vars
  /\ [](currentView = "enrollment" /\ step = "capture" /\ ~isCapturing
          => ENABLED HandleCapture(TRUE))

\* The second pose asked for again after a try without a face: the first
\* sample is kept.
C23_Witness ==
  /\ currentView = "enrollment" /\ step = "capture"
  /\ captureStatus = "no_face" /\ ~isCapturing
  /\ captureIndex = 1 /\ capturedImages = <<0>>
  /\ wiz[0].op.pc = "none"

\* C24: while the wizard shows the success step, the quality score of an
\* enrollFace answer is recorded and the current user is the one made from
\* that same answer; and the success step is entered only from the
\* processing step, by the answer of the enrollFace call.
C24_SuccessHoldsEnrollResult ==
  /\ []((currentView = "enrollment" /\ step = "success")
          => \E res \in EnrollResults :
               /\ qualityScore = Some(res.quality_score)
               /\ currentUser =
                    Some([id |-> UserIdOf(res.user_id), name |-> res.name]))
  /\ [][(currentView' = "enrollment" /\ step' = "success" /\ step # "success")
          => /\ currentView = "enrollment" /\ step = "processing"
             /\ wiz[0].op.pc = "enroll" /\ wiz'[0].op.pc = "none"]_vars

\* C25: the mode change that follows the success step of the wizard is the
\* one to analysis.
C25_SuccessLeadsToAnalysis ==
  [][(/\ currentView = "enrollment" /\ step = "success"
      /\ currentView' # currentView)
       => currentView' = "analysis"]_vars

\* C26: in the analysis mode the view loads exactly while an analysis call
\* of it is in flight; when it shows the error no result is stored, and when
\* it shows the results one is.
C26_PendingReadyFailedDistinct ==
  currentView = "analysis" =>
    /\ isLoading <=> callsCur > 0
    /\ (~isLoading /\ analysisError # Null)
         => scores = None /\ overallScore = None
    /\ (~isLoading /\ analysisError = Null) => scores # None

\* C27: when the auto-return timer set for results on screen fires, the view
\* mode becomes idle and the analysis result is cleared.
C27_AutoDismissReturnsToIdle ==
  [][(autoTimer = "armed" /\ autoTimer' = "fired")
       => /\ currentView' = "idle"
          /\ scores' = None /\ overallScore' = None
          /\ capturedImage' = Null]_vars

\* The texts a message of the API client can start with.
ErrorPrefixes ==
  {"", "Debug analysis failed: ", "Enrollment failed: "}

\* The message msg ends with the response body b.
CarriesBody(msg, b) == \E pre \in ErrorPrefixes : msg = pre \o b

\* C28: every remote call that gets a status that is not ok fails with an
\* error whose message carries the response body, the error shown by the
\* enrollment wizard included.
C28_ErrorsCarryResponseBody ==
  /\ \A call \in ApiCalls, b \in ErrorBodies :
       CarriesBody(ThrownError(call, b), b)
  /\ enrollError # Null => \E b \in ErrorBodies : CarriesBody(enrollError, b)

\* C29: stopCamera is idempotent. In every state, for the stopCamera of
\* every IdleView instance and of every wizard: a second call changes nothing
\* after the first, after the first no stream is held (the ref is null, the
\* stream it held is stopped, the camera overlay is hidden), and a call with
\* no stream held changes neither the streams nor the refs.
C29_StopCameraIdempotent ==
  /\ \A i \in InstIds :
       LET once == IdleStopCamera(CameraState, i) IN
       /\ IdleStopCamera(once, i) = once
       /\ once.streamRef[i] = 0
       /\ ~once.showCamera
       /\ streamRef[i] # 0 => ~once.stream[streamRef[i]]
       /\ streamRef[i] = 0 =>
            once.stream = stream /\ once.streamRef = streamRef
  /\ \A w \in WizIds :
       LET once == EnrollStopCamera(wiz[w].held) IN
       /\ EnrollStopCamera(once) = once
       /\ ~once

\* The stopCamera of handleCancel has released the stream of a run that goes
\* on to the stopCamera at its own end.
C29_Witness ==
  \E r \in RunIds :
    /\ Cancelled(r)
    /\ run[r].pc = "rec"
    /\ streamRef[run[r].inst] = 0
    /\ ~stream[r]

\* C30: when getUserMedia or recognizeFace fails in a recognition run, the
\* run is over and the system is in its idle state: mode idle, no camera
\* stream live and none left behind by the step, the current user as before, isRecognizing
\* false and the failure message shown; after a failed getUserMedia the run
\* has made no remote call and makes none.
C30_FailedRunBackToIdle ==
  [][\A r \in RunIds :
       (GetUserMediaRejects(r) \/ RecognizeThrows(r))
         => /\ run'[r] = NoRun
            /\ currentView' = "idle"
            /\ \A q \in RunIds : ~stream'[q]
            /\ leaked' = leaked
            /\ currentUser' = currentUser
            /\ ~isRecognizing'
            /\ recognizeStatus' = Status("failed")
            /\ run[r].pc = "acq" => run[r].attempt = 0 /\ run[r].lastDet = "none"]_vars

\* The first n poses in their order.
Poses(n) == [k \in 1..n |-> k - 1]

\* C31: every enrollFace call in flight carries a trimmed, entered name and
\* exactly one sample per pose in the order 0, 1, 2; for the wizard on screen
\* these are its name and its confirmed samples.  After a failed submission
\* the samples confirmed so far are those of the new attempt only.
C31_EnrollCarriesNameAndSamples ==
  /\ \A w \in WizIds :
       wiz[w].op.pc = "enroll" =>
         /\ wiz[w].op.imgs = Poses(N)
         /\ wiz[w].op.name \in {Trim(n) : n \in Names} \ {""}
         /\ OnScreen(w) =>
              /\ step = "processing"
              /\ wiz[w].op.name = Trim(name)
              /\ wiz[w].op.imgs = capturedImages
  /\ (currentView = "enrollment" /\ step = "capture" /\ enrollError # Null)
       => /\ Len(capturedImages) <= captureIndex + 1
          /\ capturedImages = Poses(Len(capturedImages))

\* The wizard on screen is in processing and its enrollFace call is in
\* flight.
C31_Witness ==
  /\ currentView = "enrollment"
  /\ step = "processing"
  /\ wiz[0].op.pc = "enroll"
  /\ wiz[0].op.name = "Ann"
  /\ Len(wiz[0].op.imgs) = N

\* C32: a snapshot taken while the camera has produced no frame yields no
\* frame and no detectFace call: a recognition run starts a detectFace call
\* only with a video that shows a frame of a live stream, and handleCapture
\* of the wizard starts one only while the wizard holds a stream.
C32_NoFrameNoDetect ==
  [][/\ \A r \in RunIds :
          (run[r].pc # "det" /\ run'[r].pc = "det")
            => videoReady /\ videoSrc # 0 /\ stream[videoSrc]
     /\ (wiz[0].op.pc # "det" /\ wiz'[0].op.pc = "det") => wiz[0].held]_vars

C34_StoredIdIsReturnedId ==
  [][/\ \A w \in WizIds, res \in EnrollResults :
          EnrollReturns(w, res) => currentUser' = Some([id |-> res.user_id,
                                                        name |-> res.name])
     /\ \A r \in RunIds, res \in RecognizeResults :
          (IsMatch(res) /\ RecognizeReturns(r, res))
            => currentUser' = Some([id |-> res.user_id,
                                    name |-> res.name])]_vars

\* C35: while the wizard on screen is in capture, processing or success its
\* name has a character that is not white space; the name step is left for
\* the capture step only with such a name, and in the later steps the name
\* does not change.
C35_NameNonEmptyAfterNameStep ==
  /\ []((currentView = "enrollment"
           /\ step \in {"capture", "processing", "success"})
          => name \notin {"", " "})
  /\ [][(currentView = "enrollment" /\ currentView' = "enrollment")
          => /\ (step = "name" /\ step' # "name")
                  => step' = "welcome" \/ name \notin {"", " "}
             /\ step \in {"capture", "processing", "success"}
                  => name' = name]_vars

\* The wizard on screen has reached success with the name entered.
C35_Witness ==
  /\ currentView = "enrollment"
  /\ step = "success"
  /\ name = "Ann"

\* C36: while the wizard on screen is in the capture step and no capture is
\* in progress, the number of confirmed samples is the capture index, and
\* both are between 0 and 2.
C36_SamplesMatchCaptureIndex ==
  (currentView = "enrollment" /\ step = "capture" /\ ~isCapturing)
    => /\ Len(capturedImages) = captureIndex
       /\ captureIndex \in 0..(N - 1)

\* Two poses are confirmed and the third is asked for.
C36_Witness ==
  /\ currentView = "enrollment"
  /\ step = "capture"
  /\ ~isCapturing
  /\ captureIndex = 2
  /\ capturedImages = <<0, 1>>

\* C37: a wizard holds a camera stream only while it is on screen in the
\* capture step, and no stream it acquired is left live without a ref; when a
\* failed submission brings the wizard back to capture, the camera is
\* acquired again.
C37_CameraOnlyInCapture ==
  /\ [](/\ \A w \in WizIds :
             wiz[w].held => OnScreen(w) /\ step = "capture"
        /\ ~leaked)
  /\ [][\A msg \in EnrollErrors :
          (OnScreen(0) /\ EnrollThrows(0, msg))
            => step' = "capture" /\ wiz'[0].pend = wiz[0].pend + 1]_vars

\* C38: a recognizeFace answer with match = true and no name is treated as
\* no match: the step leaves the current user and the view mode as they are
\* and ends the run, so that no greeting and no setView('analysis') follow.
C38_MatchWithoutNameIsNoMatch ==
  [][\A r \in RunIds, res \in RecognizeResults :
       (res.match /\ res.name = Null /\ RecognizeReturns(r, res))
         => /\ currentUser' = currentUser
            /\ currentView' = currentView
            /\ run'[r] = NoRun
            /\ Mounted(r) => recognizeStatus' = NoMatchStatus(res)]_vars

\* The answer without a name has been taken for no match in the idle view.
C38_Witness ==
  /\ currentView = "idle"
  /\ currentUser = None
  /\ recognizeStatus = Status("notRecognizedPct")

\* C39: setView changes only the view mode and resets the context's error to
\* null: applied to the context of any state, with any error and for any
\* view, it leaves the current user, the scores, the overall score and the
\* other fields as they are; and every step that changes the view mode
\* leaves the error null and the current user unchanged, and the scores and
\* the overall score too unless it is handleClose, which calls setScores.
C39_SetViewFrame ==
  /\ [](\A v \in ViewType, e \in ContextErrors :
          LET c == [Context EXCEPT !.error = e]
              d == setView(c, v)
          IN d = [c EXCEPT !.currentView = v, !.error = Null]
             /\ d.currentUser = currentUser
             /\ d.scores = scores
             /\ d.overallScore = overallScore)
  /\ [][currentView' # currentView
          => /\ error' = Null
             /\ currentUser' = currentUser
             /\ ~(currentView = "analysis" /\ currentView' = "idle")
                  => scores' = scores /\ overallScore' = overallScore]_vars

\* setView('analysis') has acted while a user is set.
C39_Witness ==
  /\ currentView = "analysis"
  /\ currentUser # None
  /\ isLoading

\* C40: the attempt number of the status message is between 1 and K, and
\* when the detectFace call of the last attempt answers that there is no
\* face, the run shows no further attempt message and waits for no further
\* backoff.
C40_AttemptNumberWithinK ==
  /\ [](recognizeStatus.msg = "adjusting" => recognizeStatus.n \in 1..K)
  /\ [][\A r \in RunIds :
          (run[r].attempt = K - 1 /\ DetectReturns(r, "noface"))
            => /\ run'[r].pc # "back"
               /\ Mounted(r) => recognizeStatus'.msg # "adjusting"]_vars

====
